---- MODULE Spec2Model ----
(***************************************************************************)
(* A model of the 2048 board engine (game.py: Game, GameState), of the     *)
(* turn loop Game.play and of the agents of agents.py.                     *)
(*                                                                         *)
(* A board is a sequence of rows, a row a sequence of cell values; Python  *)
(* index i is index i+1 here.  A Game is the record [board, score]; its    *)
(* dimension is Len(board).                                                *)
(***************************************************************************)
EXTENDS Integers, Sequences, FiniteSets, TLC

\* ------------------------------------------------------------------ bounds
\* Cells of the enumerated boards are 0 or 2^k with 1 <= k <= MaxExp.
MaxExp == 3
\* Dimension of the boards that hold one populated row or column.
LineDim == 4
\* The goal of the sessions played by the agents that keep no table.
PlayGoal == 8
\* The goal of the sessions played by the learning agent.
LearnGoal == 4
\* The sum of the cells up to which a session on a wide board is followed.
WideSum == 8
\* The driver of a QLearnAgent stops asking for moves when the table has
\* MaxEntries entries, and ends at most MaxEpisodes episodes.
MaxEntries == 2
MaxEpisodes == 2
\* The snapshots an agent holds at a time, and the sum of the cells up to which
\* tiles are added to a board whose list objects are followed.
MaxHeld == 1
AliasSum == 6
\* The operations a behaviour runs on a Game whose list objects are followed.
MaxSteps == 3
\* The calls a behaviour makes on an agent that is passed snapshots again.
MaxCalls == 3
\* The turns a learning session is followed for, over all its episodes.
MaxTurns == 2

VARIABLES
    board,      \* Game.board
    score,      \* Game.score
    dim,        \* Game.dim
    goal,       \* Game.goal
    op,         \* the operation the engine has just run ("none" before any)
    pre,        \* the Game and the arguments as they were when op was called
    ret,        \* what op returned
    pc,         \* where Game.play stands
    agentKind,  \* the class of Game.agent
    agent,      \* the fields of Game.agent (a QLearnAgent's; <<>> for the others)
    move_choice, \* Game.play's local move_choice
    exit,       \* how the while loop of Game.play was left ("" while it runs)
    finals,     \* the calls of agent.final that have run
    finalArg,   \* the snapshot the last of them was given
    heap,       \* the list objects: the row lists and the lists of rows
    boardRef,   \* the list object Game.board is bound to
    held,       \* the GameState objects an agent holds, oldest first
    steps       \* the operations run so far on the followed list objects

gameVars == <<board, score, dim, goal>>
opVars == <<op, pre, ret>>
playVars == <<pc, agentKind, agent, move_choice, exit, finals, finalArg>>
heapVars == <<heap, boardRef, held, steps>>
vars == <<board, score, dim, goal, op, pre, ret,
          pc, agentKind, agent, move_choice, exit, finals, finalArg,
          heap, boardRef, held, steps>>

\* No list object is followed.
NoHeap == [rows |-> <<>>, lists |-> <<>>]

Pow2(k) == IF k = 0 THEN 1 ELSE 2 ^ k

Tiles == {0} \cup {Pow2(k) : k \in 1..MaxExp}

Moves == <<"left", "right", "up", "down">>

MoveSet == {Moves[i] : i \in 1..Len(Moves)}

\* F of the value of v, the value computed once.
With(v, F(_)) == CHOOSE result \in {F(x) : x \in {v}} : TRUE

\* ------------------------------------------------------- the board engine
\* Game.compress: the non-zero cells of a row, in order.
compress(row) == SelectSeq(row, LAMBDA num : num # 0)

\* A merge loop that doubles the left cell of an equal pair and keeps the right.
RECURSIVE merge_loop_keep_right(_, _, _, _)
merge_loop_keep_right(row, i, gain, update_score) ==
    IF i > Len(row) - 1
    THEN [row |-> row, gain |-> gain]
    ELSE IF row[i] = row[i + 1]
         THEN merge_loop_keep_right([row EXCEPT ![i] = row[i] * 2], i + 1,
                                    IF update_score THEN gain + row[i] * 2 ELSE gain,
                                    update_score)
         ELSE merge_loop_keep_right(row, i + 1, gain, update_score)

\* A merge loop that adds 2 to the left cell of an equal pair.
RECURSIVE merge_loop_add_two(_, _, _, _)
merge_loop_add_two(row, i, gain, update_score) ==
    IF i > Len(row) - 1
    THEN [row |-> row, gain |-> gain]
    ELSE IF row[i] = row[i + 1]
         THEN merge_loop_add_two([row EXCEPT ![i] = row[i] + 2, ![i + 1] = 0],
                                 i + 1,
                                 IF update_score THEN gain + row[i] * 2 ELSE gain,
                                 update_score)
         ELSE merge_loop_add_two(row, i + 1, gain, update_score)

\* The loop of Game.merge from Python index i-1 on; gain is what the loop has
\* added to self.score so far.
RECURSIVE merge_loop(_, _, _, _)
merge_loop(row, i, gain, update_score) ==
    IF i > Len(row) - 1
    THEN [row |-> row, gain |-> gain]
    ELSE IF row[i] = row[i + 1]
         THEN merge_loop([row EXCEPT ![i] = row[i] * 2, ![i + 1] = 0], i + 1,
                         IF update_score THEN gain + row[i] * 2 ELSE gain,
                         update_score)
         ELSE merge_loop(row, i + 1, gain, update_score)

\* A merge that keeps merging into the cell it has just doubled.
RECURSIVE merge_cascade_loop(_, _, _, _)
merge_cascade_loop(row, i, gain, update_score) ==
    IF i > Len(row) - 1
    THEN [row |-> row, gain |-> gain]
    ELSE IF row[i] = row[i + 1] /\ row[i] # 0
         THEN merge_cascade_loop(
                  compress([row EXCEPT ![i] = row[i] * 2, ![i + 1] = 0]), i,
                  IF update_score THEN gain + row[i] * 2 ELSE gain,
                  update_score)
         ELSE merge_cascade_loop(row, i + 1, gain, update_score)

merge_cascade(row, update_score) == merge_cascade_loop(row, 1, 0, update_score)

\* Game.merge: one left-to-right pass over the adjacent pairs.
merge(row, update_score) == merge_loop(row, 1, 0, update_score)

Zeros(n) == [k \in 1..n |-> 0]

\* A row step that slides the cells without merging them.
move_left_row_no_merge(original_row, update_score) ==
    [row  |-> compress(original_row)
                \o Zeros(Len(original_row) - Len(compress(original_row))),
     gain |-> 0]

\* The body of the loop of Game.move_left for one row: compress, merge,
\* compress, pad with zeros to the length of the row.
move_left_row(original_row, update_score) ==
    With(merge(compress(original_row), update_score), LAMBDA merged :
    With(compress(merged.row), LAMBDA merged_and_compressed_row :
        [row  |-> merged_and_compressed_row
                    \o Zeros(Len(original_row) - Len(merged_and_compressed_row)),
         gain |-> merged.gain]))

\* A move_left whose flag keeps only the comparison of the last row.
RECURSIVE move_left_loop_last_row(_, _, _, _)
move_left_loop_last_row(g, i, moved, update_score) ==
    IF i > Len(g.board)
    THEN [board |-> g.board, score |-> g.score, moved |-> moved]
    ELSE With(move_left_row(g.board[i], update_score), LAMBDA r :
             move_left_loop_last_row([board |-> [g.board EXCEPT ![i] = r.row],
                                      score |-> g.score + r.gain],
                                     i + 1,
                                     g.board[i] # r.row,
                                     update_score))

\* Game.move_left from row i on.  g is [board, score], moved the flag so far.
RECURSIVE move_left_loop(_, _, _, _)
move_left_loop(g, i, moved, update_score) ==
    IF i > Len(g.board)
    THEN [board |-> g.board, score |-> g.score, moved |-> moved]
    ELSE With(move_left_row(g.board[i], update_score), LAMBDA r :
             move_left_loop([board |-> [g.board EXCEPT ![i] = r.row],
                             score |-> g.score + r.gain],
                            i + 1,
                            moved \/ (g.board[i] # r.row),
                            update_score))

\* Game.move_left.
move_left(g, update_score) == move_left_loop(g, 1, FALSE, update_score)

\* A rotate_board that turns the board the other way round.
rotate_board_anticlockwise(b) ==
    [j \in 1..Len(b) |-> [k \in 1..Len(b) |-> b[k][Len(b) + 1 - j]]]

\* Game.rotate_board: [list(row) for row in zip(*reversed(board))].
rotate_board(b) ==
    [j \in 1..Len(b) |-> [k \in 1..Len(b) |-> b[Len(b) + 1 - k][j]]]

RECURSIVE rotate_times(_, _)
rotate_times(b, n) ==
    IF n = 0 THEN b ELSE rotate_times(rotate_board(b), n - 1)

\* Game.move_down: one rotation, move_left, three rotations.
move_down(g, update_score) ==
    With(move_left([board |-> rotate_times(g.board, 1), score |-> g.score],
                   update_score),
         LAMBDA m : [m EXCEPT !.board = rotate_times(m.board, 3)])

\* A move_up that rotates once before the left move and three times after it.
move_up_one_rotation(g, update_score) ==
    With(move_left([board |-> rotate_times(g.board, 1), score |-> g.score],
                   update_score),
         LAMBDA m : [m EXCEPT !.board = rotate_times(m.board, 3)])

\* Game.move_up: three rotations, move_left, one rotation.
move_up(g, update_score) ==
    With(move_left([board |-> rotate_times(g.board, 3), score |-> g.score],
                   update_score),
         LAMBDA m : [m EXCEPT !.board = rotate_times(m.board, 1)])

\* Game.move_right: two rotations, move_left, two rotations.
move_right(g, update_score) ==
    With(move_left([board |-> rotate_times(g.board, 2), score |-> g.score],
                   update_score),
         LAMBDA m : [m EXCEPT !.board = rotate_times(m.board, 2)])

\* The bound method move_<direction>, as getattr and the move_func lists pick it.
move_func(direction, g, update_score) ==
    CASE direction = "left"  -> move_left(g, update_score)
      [] direction = "right" -> move_right(g, update_score)
      [] direction = "up"    -> move_up(g, update_score)
      [] direction = "down"  -> move_down(g, update_score)

\* A simulate_move that lets the move score.
simulate_move_scoring(g, direction) ==
    LET original_board == g.board
    IN With(move_func(direction, g, TRUE), LAMBDA m :
           [board |-> original_board, score |-> m.score,
            changed |-> m.board # original_board])

\* Game.simulate_move: the move without scoring on self.board, then the board
\* put back; changed is the whole-board comparison.
simulate_move(g, direction) ==
    LET original_board == g.board
    IN With(move_func(direction, g, FALSE), LAMBDA m :
           [board |-> original_board, score |-> m.score,
            changed |-> m.board # original_board])

\* Game.move_possible from the i-th entry of [left, right, up, down] on.
RECURSIVE move_possible_loop(_, _, _)
move_possible_loop(g, original_board, i) ==
    IF i > Len(Moves)
    THEN [board |-> original_board, score |-> g.score, result |-> FALSE]
    ELSE With(simulate_move([board |-> original_board, score |-> g.score],
                            Moves[i]),
              LAMBDA s :
                  IF s.changed
                  THEN [board |-> original_board, score |-> s.score,
                        result |-> TRUE]
                  ELSE move_possible_loop([board |-> s.board, score |-> s.score],
                                          original_board, i + 1))

\* A move_possible that counts empty cells instead of trying the moves.
move_possible_by_empty_cells(g) ==
    [board |-> g.board, score |-> g.score,
     result |-> \E r \in 1..Len(g.board) : \E c \in 1..Len(g.board) :
                    g.board[r][c] = 0]

\* Game.move_possible.
move_possible(g) == move_possible_loop(g, g.board, 1)

\* Game.check_game_over.
check_game_over(g) ==
    With(move_possible(g), LAMBDA p :
        [board |-> p.board, score |-> p.score, result |-> ~p.result])

\* Game.check_win: some cell has reached the goal.
check_win(g, gl) ==
    \E r \in 1..Len(g.board) : \E c \in 1..Len(g.board) : g.board[r][c] >= gl

\* An add_new_tile that picks its cell among all cells, empty or not.
add_new_tile_any_cell(b) ==
    {[b EXCEPT ![rc[1]][rc[2]] = v] : rc \in (1..Len(b)) \X (1..Len(b)), v \in {2, 4}}

\* An add_new_tile that writes no tile.
add_new_tile_none(b) == {b}

\* Game.add_new_tile: the boards random.choice and random.choices can leave:
\* a 2 or a 4 in one empty cell, or the board as it is when no cell is empty.
add_new_tile(b) ==
    LET empty_cells == {rc \in (1..Len(b)) \X (1..Len(b)) : b[rc[1]][rc[2]] = 0}
    IN IF empty_cells # {}
       THEN {[b EXCEPT ![rc[1]][rc[2]] = v] : rc \in empty_cells, v \in {2, 4}}
       ELSE {b}

\* Game.initialize_game on the empty board of Game.__init__: two new tiles.
initialize_game(n) ==
    UNION {add_new_tile(b) : b \in add_new_tile([r \in 1..n |-> Zeros(n)])}

\* ------------------------------------------------------------ snapshots
\* GameState.__init__: a new object (id) holding a copy of the rows, the score
\* and the dimension.  Its move methods (game.py 186-218) repeat those of Game
\* line for line, so the same operators model them.
GameState(id, b, s, d) == [id |-> id, board |-> [r \in 1..Len(b) |-> b[r]],
                           score |-> s, dim |-> d]

\* GameState.get_score.
get_score(gs) == gs.score

\* A valid_moves loop that tries each move on the board the last one has left.
RECURSIVE valid_moves_loop_no_reset(_, _, _)
valid_moves_loop_no_reset(gs, i, moves) ==
    IF i > Len(Moves)
    THEN [board |-> gs.board, score |-> gs.score, moves |-> moves]
    ELSE With(move_func(Moves[i], gs, FALSE), LAMBDA m :
             valid_moves_loop_no_reset([gs EXCEPT !.board = m.board,
                                                  !.score = m.score],
                                       i + 1,
                                       IF m.moved THEN Append(moves, Moves[i])
                                       ELSE moves))

\* GameState.valid_moves from the i-th of left, right, up, down on: the move is
\* tried without scoring, kept when it reports a change, and the board put back.
RECURSIVE valid_moves_loop(_, _, _)
valid_moves_loop(gs, i, moves) ==
    IF i > Len(Moves)
    THEN [board |-> gs.board, score |-> gs.score, moves |-> moves]
    ELSE LET original_board == gs.board
         IN With(move_func(Moves[i], gs, FALSE), LAMBDA m :
                valid_moves_loop([gs EXCEPT !.board = original_board,
                                            !.score = m.score],
                                 i + 1,
                                 IF m.moved THEN Append(moves, Moves[i])
                                 ELSE moves))

\* GameState.valid_moves.
valid_moves(gs) == valid_moves_loop(gs, 1, <<>>)

Range(seq) == {seq[i] : i \in 1..Len(seq)}

\* ------------------------------------------------------ exact arithmetic
\* The floats of agents.py are modelled by exact fractions [n, d], d > 0, in
\* lowest terms.
RECURSIVE Gcd(_, _)
Gcd(x, y) == IF y = 0 THEN x ELSE Gcd(y, x % y)

Abs(x) == IF x < 0 THEN -x ELSE x

Frac(n, d) ==
    LET k == Gcd(Abs(n), Abs(d))
        sgn == IF d < 0 THEN -1 ELSE 1
    IN [n |-> sgn * (n \div k), d |-> sgn * (d \div k)]

Int2F(i) == [n |-> i, d |-> 1]
\* Sum, difference, product and order, with the common factors of the
\* denominators taken out before multiplying.
FAdd(x, y) ==
    LET g == Gcd(x.d, y.d)
    IN Frac(x.n * (y.d \div g) + y.n * (x.d \div g), (x.d \div g) * y.d)

FSub(x, y) ==
    LET g == Gcd(x.d, y.d)
    IN Frac(x.n * (y.d \div g) - y.n * (x.d \div g), (x.d \div g) * y.d)

FMul(x, y) ==
    LET a == Frac(x.n, y.d)
        b == Frac(y.n, x.d)
    IN Frac(a.n * b.n, a.d * b.d)

FLess(x, y) ==
    LET g == Gcd(x.d, y.d)
    IN x.n * (y.d \div g) < y.n * (x.d \div g)

\* ------------------------------------------------------------ the agents
\* Agent.get_move results are a direction or None.
None == "None"

\* A GameState equality by value: the same board and the same score.
GameState_eq_by_value(x, y) == x.board = y.board /\ x.score = y.score

\* GameState defines no __eq__ and no __hash__: two GameState objects are equal
\* iff they are the same object.
GameState_eq(x, y) == x.id = y.id

\* GameStateFeatures.__eq__ (with __hash__ = hash(self.state), the identity hash).
GameStateFeatures_eq(x, y) == GameState_eq(x, y)

\* GameStateFeatures.largest_in_corner.
largest_in_corner(gs) ==
    \A r \in 1..Len(gs.board) : \A c \in 1..Len(gs.board) :
        gs.board[r][c] <= gs.board[1][1]

\* RandomAgent.get_move: the values random.choice can return.
RandomAgent_get_move(gs) ==
    LET moves == valid_moves(gs).moves
    IN IF moves # <<>> THEN Range(moves) ELSE {None}

\* LeftAgent.get_move.
LeftAgent_get_move(gs) ==
    LET moves == Range(valid_moves(gs).moves)
    IN IF moves # {}
       THEN IF "left" \in moves THEN "left"
            ELSE IF "down" \in moves THEN "down"
            ELSE IF "right" \in moves THEN "right"
            ELSE "up"
       ELSE None

\* QLearnAgent.__init__ with its default arguments.
QLearnAgent_init ==
    [alpha |-> Frac(2, 10), epsilon |-> Frac(5, 100), gamma |-> Frac(8, 10),
     maxAttempts |-> 30, numTraining |-> 0, episodesSoFar |-> 0,
     qTable |-> <<>>, previousState |-> <<>>, previousAction |-> <<>>]

\* The dict qTable is the sequence of its items in insertion order, an item being
\* [state, action, q, n] for the key (GameStateFeatures(state), action) and the
\* value (q, n).  KeyIndex is the position of the key equal to (state, action),
\* 0 when there is none.
KeyIndex(qTable, state, action) ==
    LET hits == {i \in 1..Len(qTable) :
                    /\ GameStateFeatures_eq(qTable[i].state, state)
                    /\ qTable[i].action = action}
    IN IF hits = {} THEN 0 ELSE CHOOSE i \in hits : \A j \in hits : i <= j

\* self.qTable.get((state, action), default).
QGet(qTable, state, action, default) ==
    LET i == KeyIndex(qTable, state, action)
    IN IF i = 0 THEN default ELSE [q |-> qTable[i].q, n |-> qTable[i].n]

\* self.qTable[(state, action)] = (q, n).
QSet(qTable, state, action, q, n) ==
    LET i == KeyIndex(qTable, state, action)
    IN IF i = 0
       THEN Append(qTable, [state |-> state, action |-> action, q |-> q, n |-> n])
       ELSE [qTable EXCEPT ![i].q = q, ![i].n = n]

\* QLearnAgent.getQValue.
getQValue(a, state, action) ==
    QGet(a.qTable, state, action, [q |-> Int2F(0), n |-> 0]).q

\* QLearnAgent.getCount.
getCount(a, state, action) ==
    QGet(a.qTable, state, action, [q |-> Int2F(0), n |-> 0]).n

RECURSIVE FMax(_)
FMax(qs) ==
    IF Len(qs) = 1 THEN qs[1]
    ELSE LET m == FMax(Tail(qs)) IN IF FLess(qs[1], m) THEN m ELSE qs[1]

\* QLearnAgent.maxQValue.
maxQValue(a, state) ==
    LET hits == SelectSeq(a.qTable, LAMBDA e : GameStateFeatures_eq(e.state, state))
        qValues == [i \in 1..Len(hits) |-> hits[i].q]
    IN IF qValues # <<>> THEN FMax(qValues) ELSE Int2F(0)

\* A computeReward whose corner bonus takes the score increase away twice.
computeReward_bonus_against_increase(startState, endState) ==
    LET score_increase == get_score(endState) - get_score(startState)
        n == Len(endState.board)
        empty_tiles == Cardinality({rc \in (1..n) \X (1..n) :
                                       endState.board[rc[1]][rc[2]] = 0})
        corner_bonus == IF largest_in_corner(endState)
                        THEN FSub(Int2F(get_score(startState)),
                                  Int2F(2 * score_increase))
                        ELSE Int2F(0)
    IN FAdd(FAdd(Int2F(score_increase), corner_bonus), Int2F(empty_tiles * 10))

\* QLearnAgent.computeReward.
computeReward(startState, endState) ==
    LET score_increase == get_score(endState) - get_score(startState)
        n == Len(endState.board)
        empty_tiles == Cardinality({rc \in (1..n) \X (1..n) :
                                       endState.board[rc[1]][rc[2]] = 0})
        corner_bonus == IF largest_in_corner(endState)
                        THEN FAdd(Int2F(get_score(startState)),
                                  FMul(Frac(1, 2), Int2F(score_increase)))
                        ELSE Int2F(0)
    IN FAdd(FAdd(Int2F(score_increase), corner_bonus), Int2F(empty_tiles * 10))

\* QLearnAgent.learn.
learn(a, state, action, reward, nextState) ==
    LET updatedQValues ==
            FAdd(FMul(FSub(Int2F(1), a.alpha), getQValue(a, state, action)),
                 FMul(a.alpha,
                      FAdd(reward, FMul(a.gamma, maxQValue(a, nextState)))))
        visitCount == QGet(a.qTable, state, action, [q |-> Int2F(0), n |-> 0]).n
    IN [a EXCEPT !.qTable = QSet(a.qTable, state, action, updatedQValues,
                                 visitCount + 1)]

\* QLearnAgent.updateCount.
updateCount(a, state, action) ==
    LET e == QGet(a.qTable, state, action, [q |-> Int2F(0), n |-> 0])
    IN [a EXCEPT !.qTable = QSet(a.qTable, state, action, e.q, e.n + 1)]

\* The constant C of explorationFn.
C == 10

\* QLearnAgent.explorationFn.
explorationFn(utility, counts) == FAdd(utility, Frac(C, counts + 1))

\* An arg max that returns the last of the moves no other exceeds.
ArgMaxLast(a, state, moves) ==
    LET adjusted(m) == explorationFn(getQValue(a, state, m), getCount(a, state, m))
        i == CHOOSE i \in 1..Len(moves) :
                /\ \A j \in 1..Len(moves) : ~FLess(adjusted(moves[i]), adjusted(moves[j]))
                /\ \A j \in (i + 1)..Len(moves) : FLess(adjusted(moves[j]), adjusted(moves[i]))
    IN moves[i]

\* max(adjustedQValues, key=adjustedQValues.get): the first of the moves, in
\* their order, whose adjusted value no other exceeds.
ArgMaxFirst(a, state, moves) ==
    LET adjusted(m) == explorationFn(getQValue(a, state, m), getCount(a, state, m))
        i == CHOOSE i \in 1..Len(moves) :
                /\ \A j \in 1..Len(moves) : ~FLess(adjusted(moves[i]), adjusted(moves[j]))
                /\ \A j \in 1..(i - 1) : FLess(adjusted(moves[j]), adjusted(moves[i]))
    IN moves[i]

\* QLearnAgent.get_move: the set of its outcomes [agent, action, branch], one for
\* each value random.random() and random.choice can take; branch is the side of
\* the test random.random() < self.epsilon the call has taken.
QLearnAgent_get_move(a, game_state) ==
    LET moves == valid_moves(game_state).moves
        learned ==
            IF a.previousState # <<>>
            THEN LET previousState == a.previousState[Len(a.previousState)]
                     previousAction == a.previousAction[Len(a.previousAction)]
                     curReward == computeReward(previousState, game_state)
                 IN learn(a, previousState, previousAction, curReward, game_state)
            ELSE a
        explore == IF FLess(Int2F(0), learned.epsilon) THEN Range(moves) ELSE {}
        exploit == IF FLess(learned.epsilon, Int2F(1))
                   THEN {ArgMaxFirst(learned, game_state, moves)} ELSE {}
        take(action, branch) ==
            LET counted == updateCount(learned, game_state, action)
            IN [agent  |-> [counted EXCEPT
                               !.previousState = Append(@, game_state),
                               !.previousAction = Append(@, action)],
                action |-> action,
                branch |-> branch]
    IN IF moves # <<>>
       THEN {take(action, "explore") : action \in explore}
            \cup {take(action, "exploit") : action \in exploit}
       ELSE {[agent |-> a, action |-> None, branch |-> "none"]}

\* A final that keeps the pending trackers.
QLearnAgent_final_keep_pending(a, state) ==
    LET learned ==
            IF a.previousState # <<>>
            THEN LET previousState == a.previousState[Len(a.previousState)]
                     previousAction == a.previousAction[Len(a.previousAction)]
                     finalReward == computeReward(previousState, state)
                 IN learn(a, previousState, previousAction, finalReward, state)
            ELSE a
        counted == [learned EXCEPT !.episodesSoFar = @ + 1]
    IN IF counted.episodesSoFar >= counted.numTraining
       THEN [counted EXCEPT !.alpha = Int2F(0), !.epsilon = Int2F(0)]
       ELSE counted

\* QLearnAgent.final.
QLearnAgent_final(a, state) ==
    LET learned ==
            IF a.previousState # <<>>
            THEN LET previousState == a.previousState[Len(a.previousState)]
                     previousAction == a.previousAction[Len(a.previousAction)]
                     finalReward == computeReward(previousState, state)
                 IN learn(a, previousState, previousAction, finalReward, state)
            ELSE a
        cleared == [learned EXCEPT !.previousState = <<>>,
                                   !.previousAction = <<>>,
                                   !.episodesSoFar = @ + 1]
    IN IF cleared.episodesSoFar >= cleared.numTraining
       THEN [cleared EXCEPT !.alpha = Int2F(0), !.epsilon = Int2F(0)]
       ELSE cleared

\* ------------------------------------------- the engine on enumerated boards
\* Every n x n board over the cell values T.
AllBoards(n, T) == [1..n -> [1..n -> T]]

\* The dimensions whose boards are enumerated with every filling over Tiles, and
\* those whose boards are enumerated with every filling over {0, 2}.
DenseDims == {1, 2}
WideDims == {3}

\* The n x n boards whose cells are zero outside the first row, or outside the
\* first column.
LineBoards(n) ==
    {[r \in 1..n |-> IF r = 1 THEN line ELSE Zeros(n)] : line \in [1..n -> Tiles]}
    \cup {[r \in 1..n |-> [c \in 1..n |-> IF c = 1 THEN line[r] ELSE 0]] :
              line \in [1..n -> Tiles]}

\* The scores a Game is given before the operation.
StartScores == {12}

\* The goal of the drivers (randomAgent.py, anyAgent.py).
DriverGoal == 2048

Live == [board |-> board, score |-> score]

InitMove ==
    /\ \/ \E n \in DenseDims : dim = n /\ board \in AllBoards(n, Tiles) /\ score = 0
       \/ \E n \in WideDims : dim = n /\ board \in AllBoards(n, {0, 2}) /\ score = 0
       \/ dim = LineDim /\ board \in LineBoards(LineDim) /\ score \in StartScores
    /\ goal = DriverGoal
    /\ op = "none"
    /\ pre = [board |-> board, score |-> score, update_score |-> TRUE]
    /\ ret = FALSE
    /\ pc = "idle"
    /\ agentKind = "none"
    /\ agent = <<>>
    /\ move_choice = None
    /\ exit = ""
    /\ finals = 0
    /\ finalArg = <<>>
    /\ heap = NoHeap
    /\ boardRef = 0
    /\ held = <<>>
    /\ steps = 0

\* A call of move_<direction>(update_score) on the Game.
CallMove(direction, update_score) ==
    /\ op = "none"
    /\ \E m \in {move_func(direction, Live, update_score)} :
          /\ board' = m.board
          /\ score' = m.score
          /\ ret' = m.moved
    /\ op' = direction
    /\ pre' = [board |-> board, score |-> score, update_score |-> update_score]
    /\ UNCHANGED <<heapVars, dim, goal, playVars>>

CallMoveLeft == \E update_score \in BOOLEAN : CallMove("left", update_score)
CallMoveRight == \E update_score \in BOOLEAN : CallMove("right", update_score)
CallMoveUp == \E update_score \in BOOLEAN : CallMove("up", update_score)
CallMoveDown == \E update_score \in BOOLEAN : CallMove("down", update_score)

\* A call of Game.move_possible.
CallMovePossible ==
    /\ op = "none"
    /\ \E p \in {move_possible(Live)} :
          /\ board' = p.board
          /\ score' = p.score
          /\ ret' = p.result
    /\ op' = "move_possible"
    /\ pre' = [board |-> board, score |-> score, update_score |-> FALSE]
    /\ UNCHANGED <<heapVars, dim, goal, playVars>>

\* A call of Game.check_game_over.
CallCheckGameOver ==
    /\ op = "none"
    /\ \E p \in {check_game_over(Live)} :
          /\ board' = p.board
          /\ score' = p.score
          /\ ret' = p.result
    /\ op' = "check_game_over"
    /\ pre' = [board |-> board, score |-> score, update_score |-> FALSE]
    /\ UNCHANGED <<heapVars, dim, goal, playVars>>

NextMove ==
    \/ CallMoveLeft
    \/ CallMoveRight
    \/ CallMoveUp
    \/ CallMoveDown
    \/ CallMovePossible
    \/ CallCheckGameOver

SpecMove == InitMove /\ [][NextMove]_vars

\* ------------------------------------------------------- rotate_board
\* rotate_board applied to a board and then to what it has returned, four times
\* in all.  ret is the board returned last (the board itself before the first
\* call), pre.last the argument of the last call, pre.board the first argument
\* and steps the number of calls made.
InitRotate ==
    /\ \/ \E n \in DenseDims : dim = n /\ board \in AllBoards(n, Tiles)
       \/ \E n \in WideDims : dim = n /\ board \in AllBoards(n, {0, 2})
       \/ dim = LineDim /\ board \in LineBoards(LineDim)
    /\ score = 0
    /\ goal = DriverGoal
    /\ op = "none"
    /\ pre = [board |-> board, last |-> board]
    /\ ret = board
    /\ pc = "idle"
    /\ agentKind = "none"
    /\ agent = <<>>
    /\ move_choice = None
    /\ exit = ""
    /\ finals = 0
    /\ finalArg = <<>>
    /\ heap = NoHeap
    /\ boardRef = 0
    /\ held = <<>>
    /\ steps = 0

\* self.rotate_board(b), b what the last call has returned.
CallRotateBoard ==
    /\ steps < 4
    /\ ret' = rotate_board(ret)
    /\ pre' = [pre EXCEPT !.last = ret]
    /\ op' = "rotate_board"
    /\ steps' = steps + 1
    /\ UNCHANGED <<heap, boardRef, held, gameVars, playVars>>

NextRotate == CallRotateBoard

SpecRotate == InitRotate /\ [][NextRotate]_vars

\* ------------------------------------------------------------ the probes
\* The calls that try moves without making one: move_possible and check_game_over
\* on the Game, and valid_moves on a snapshot GameState(self.board, self.score,
\* self.dim) of it.  held is the snapshot as the call has left it, ret the list
\* it has returned.
CallValidMoves ==
    /\ op = "none"
    /\ \E v \in {valid_moves(GameState(1, board, score, dim))} :
          /\ held' = <<[board |-> v.board, score |-> v.score]>>
          /\ ret' = v.moves
    /\ op' = "valid_moves"
    /\ pre' = [board |-> board, score |-> score, update_score |-> FALSE]
    /\ UNCHANGED <<heap, boardRef, steps, gameVars, playVars>>

NextProbe ==
    \/ CallMovePossible
    \/ CallCheckGameOver
    \/ CallValidMoves

SpecProbe == InitMove /\ [][NextProbe]_vars

\* ------------------------------------------------------- computeReward
\* QLearnAgent.computeReward applied to two pairs of snapshots (start, end).  The
\* end boards are drawn from RewardBoards, the scores of the start snapshots from
\* RewardStarts and the increases of the score from RewardIncreases.
RewardBoards ==
    {<<<<4, 2>>, <<0, 0>>>>, <<<<8, 2>>, <<0, 0>>>>, <<<<4, 2>>, <<2, 0>>>>,
     <<<<2, 4>>, <<0, 0>>>>, <<<<2, 8>>, <<0, 0>>>>}

RewardStarts == {0, 4, 8}

RewardIncreases == {0, 4, 8}

RewardPairs ==
    {[start |-> GameState(1, <<<<2, 2>>, <<0, 0>>>>, s, 2),
      end   |-> GameState(2, b, s + inc, 2)] :
        b \in RewardBoards, s \in RewardStarts, inc \in RewardIncreases}

InitReward ==
    /\ pre \in RewardPairs \X RewardPairs
    /\ op = "none"
    /\ ret = None
    /\ dim = 2
    /\ goal = DriverGoal
    /\ board = [r \in 1..2 |-> Zeros(2)]
    /\ score = 0
    /\ pc = "idle"
    /\ agentKind = "QLearnAgent"
    /\ agent = QLearnAgent_init
    /\ move_choice = None
    /\ exit = ""
    /\ finals = 0
    /\ finalArg = <<>>
    /\ heap = NoHeap
    /\ boardRef = 0
    /\ held = <<>>
    /\ steps = 0

\* QLearnAgent.computeReward(start, end) for each of the two pairs.
CallComputeReward ==
    /\ op = "none"
    /\ ret' = <<computeReward(pre[1].start, pre[1].end),
                computeReward(pre[2].start, pre[2].end)>>
    /\ op' = "computeReward"
    /\ UNCHANGED <<heapVars, gameVars, playVars, pre>>

NextReward == CallComputeReward

SpecReward == InitReward /\ [][NextReward]_vars

\* ------------------------------------------------------------ Game.play
\* The dimensions and goals of the sessions played; a session of the learning
\* agent, whose table keeps every turn, is played to the goal LearnGoal.
PlayDims == {1, 2}

AgentKinds == {"RandomAgent", "LeftAgent", "QLearnAgent", "OtherAgent"}

\* The object ids the agent still refers to, and an id no live object has.
UsedIds ==
    IF agentKind = "QLearnAgent"
    THEN {agent.qTable[i].state.id : i \in 1..Len(agent.qTable)}
         \cup {agent.previousState[i].id : i \in 1..Len(agent.previousState)}
    ELSE {}

NewId == CHOOSE id \in 1..(Cardinality(UsedIds) + 1) : id \notin UsedIds

\* Game.__init__ with an agent, a driver's Game(dim, goal, agent).
InitPlay ==
    /\ dim \in PlayDims
    /\ agentKind \in AgentKinds
    /\ goal = IF agentKind = "QLearnAgent" THEN LearnGoal ELSE PlayGoal
    /\ board \in initialize_game(dim)
    /\ score = 0
    /\ agent = IF agentKind = "QLearnAgent" THEN QLearnAgent_init ELSE <<>>
    /\ pc = "while"
    /\ move_choice = None
    /\ exit = ""
    /\ finals = 0
    /\ finalArg = <<>>
    /\ heap = NoHeap
    /\ boardRef = 0
    /\ held = <<>>
    /\ steps = 0
    /\ op = "none"
    /\ pre = [board |-> board, score |-> score, update_score |-> TRUE]
    /\ ret = FALSE

\* while not self.check_game_over():
PlayWhile ==
    /\ pc = "while"
    /\ LET o == check_game_over(Live)
       IN /\ board' = o.board
          /\ score' = o.score
          /\ IF o.result
             THEN pc' = "final" /\ exit' = "game_over"
             ELSE pc' = "get_move" /\ exit' = exit
    /\ UNCHANGED <<heapVars, dim, goal, opVars, agentKind, agent, move_choice, finals, finalArg>>

\* What self.agent.get_move(snapshot) can return and leave of the agent.  An
\* OtherAgent is any further Agent subclass: it may return any direction or None.
AgentGetMove(gs) ==
    CASE agentKind = "RandomAgent" ->
            {[agent |-> agent, action |-> m] : m \in RandomAgent_get_move(gs)}
      [] agentKind = "LeftAgent" ->
            {[agent |-> agent, action |-> LeftAgent_get_move(gs)]}
      [] agentKind = "QLearnAgent" -> QLearnAgent_get_move(agent, gs)
      [] agentKind = "OtherAgent" ->
            {[agent |-> agent, action |-> m] : m \in MoveSet \cup {None}}

\* move_choice = self.agent.get_move(GameState(self.board, self.score, self.dim))
PlayGetMove ==
    /\ pc = "get_move"
    /\ \E o \in AgentGetMove(GameState(NewId, board, score, dim)) :
          /\ agent' = o.agent
          /\ move_choice' = o.action
    /\ pc' = "apply"
    /\ pre' = [board |-> board, score |-> score, update_score |-> TRUE]
    /\ UNCHANGED <<heapVars, gameVars, op, ret, agentKind, exit, finals, finalArg>>

\* An agent branch that, like the keyboard branch, asks again after an illegal
\* move instead of leaving the loop.
PlayApply_ask_again ==
    /\ pc = "apply"
    /\ IF move_choice # None
       THEN LET m == move_func(move_choice, Live, TRUE)
            IN /\ board' = m.board
               /\ score' = m.score
               /\ IF m.moved
                  THEN pc' = "add_new_tile" /\ exit' = exit
                  ELSE pc' = "while" /\ exit' = exit
       ELSE /\ pc' = "final"
            /\ exit' = "none"
            /\ UNCHANGED <<board, score>>
    /\ UNCHANGED <<heapVars, dim, goal, opVars, agentKind, agent, move_choice, finals, finalArg>>

\* if move_choice: ... if move_func and move_func(): ... else: break / else: break
PlayApply ==
    /\ pc = "apply"
    /\ IF move_choice # None
       THEN LET m == move_func(move_choice, Live, TRUE)
            IN /\ board' = m.board
               /\ score' = m.score
               /\ IF m.moved
                  THEN pc' = "add_new_tile" /\ exit' = exit
                  ELSE pc' = "final" /\ exit' = "invalid"
       ELSE /\ pc' = "final"
            /\ exit' = "none"
            /\ UNCHANGED <<board, score>>
    /\ UNCHANGED <<heapVars, dim, goal, opVars, agentKind, agent, move_choice, finals, finalArg>>

\* self.add_new_tile()
PlayAddNewTile ==
    /\ pc = "add_new_tile"
    /\ board' \in add_new_tile(board)
    /\ pc' = "check_win"
    /\ UNCHANGED <<heapVars, score, dim, goal, opVars, agentKind, agent, move_choice, exit,
                   finals, finalArg>>

\* if self.check_win(): ... break
PlayCheckWin ==
    /\ pc = "check_win"
    /\ IF check_win(Live, goal)
       THEN pc' = "final" /\ exit' = "win"
       ELSE pc' = "while" /\ exit' = exit
    /\ UNCHANGED <<heapVars, gameVars, opVars, agentKind, agent, move_choice, finals, finalArg>>

\* The classes of agents.py that define a method final.
HasFinal(kind) == kind \in {"QLearnAgent", "OtherAgent"}

\* if self.agent: self.agent.final(GameState(self.board, self.score, self.dim))
\* The attribute lookup raises AttributeError for a class without final.
PlayFinal ==
    /\ pc = "final"
    /\ IF HasFinal(agentKind)
       THEN LET state == GameState(NewId, board, score, dim)
            IN /\ agent' = IF agentKind = "QLearnAgent"
                           THEN QLearnAgent_final(agent, state) ELSE agent
               /\ finals' = finals + 1
               /\ finalArg' = state
               /\ pc' = "done"
       ELSE /\ pc' = "raised"
            /\ UNCHANGED <<agent, finals, finalArg>>
    /\ UNCHANGED <<heapVars, gameVars, opVars, agentKind, move_choice, exit>>

NextPlay ==
    \/ PlayWhile
    \/ PlayGetMove
    \/ PlayApply
    \/ PlayAddNewTile
    \/ PlayCheckWin
    \/ PlayFinal

SpecPlay == InitPlay /\ [][NextPlay]_vars

\* The first turns of the sessions of a LeftAgent on the boards of WideDims: a
\* session is followed until its cells sum to WideSum or more.
RECURSIVE SumSeq(_)
SumSeq(q) == IF q = <<>> THEN 0 ELSE q[1] + SumSeq(Tail(q))

SumCells(b) == SumSeq([r \in 1..Len(b) |-> SumSeq(b[r])])

InitPlayWide ==
    /\ dim \in WideDims
    /\ agentKind = "LeftAgent"
    /\ goal = DriverGoal
    /\ board \in initialize_game(dim)
    /\ score = 0
    /\ agent = <<>>
    /\ pc = "while"
    /\ move_choice = None
    /\ exit = ""
    /\ finals = 0
    /\ finalArg = <<>>
    /\ heap = NoHeap
    /\ boardRef = 0
    /\ held = <<>>
    /\ steps = 0
    /\ op = "none"
    /\ pre = [board |-> board, score |-> score, update_score |-> TRUE]
    /\ ret = FALSE

NextPlayWide ==
    \/ PlayWhile
    \/ PlayGetMove
    \/ PlayApply
    \/ SumCells(board) < WideSum /\ PlayAddNewTile
    \/ PlayCheckWin

SpecPlayWide == InitPlayWide /\ [][NextPlayWide]_vars

\* ------------------------------------------- a QLearnAgent and its driver
\* The agent of anyAgent.py, called as Game.play calls it: get_move and final,
\* each with a snapshot that is a new object.  The snapshots are drawn from
\* QBoards and QScores; numTraining is the default or QTrainings' other value.
QBoards ==
    {<<<<2, 0>>, <<0, 0>>>>, <<<<2, 2>>, <<0, 0>>>>, <<<<2, 4>>, <<4, 2>>>>}

QScores == {0, 4}

QTrainings == {0, 2}

InitQ ==
    /\ agentKind = "QLearnAgent"
    /\ \E t \in QTrainings : agent = [QLearnAgent_init EXCEPT !.numTraining = t]
    /\ dim = 2
    /\ goal = DriverGoal
    /\ board = [r \in 1..2 |-> Zeros(2)]
    /\ score = 0
    /\ pc = "idle"
    /\ move_choice = None
    /\ exit = ""
    /\ finals = 0
    /\ finalArg = <<>>
    /\ heap = NoHeap
    /\ boardRef = 0
    /\ held = <<>>
    /\ steps = 0
    /\ op = "none"
    /\ pre = [agent |-> <<>>, state |-> <<>>, branch |-> "none"]
    /\ ret = None

\* agent.get_move(GameState(...)).
QGetMove ==
    /\ Len(agent.qTable) < MaxEntries
    /\ \E b \in QBoards : \E s \in QScores :
          LET game_state == GameState(NewId, b, s, dim)
          IN \E o \in QLearnAgent_get_move(agent, game_state) :
                /\ agent' = o.agent
                /\ ret' = o.action
                /\ pre' = [agent |-> agent, state |-> game_state,
                           branch |-> o.branch]
    /\ op' = "get_move"
    /\ UNCHANGED <<heapVars, gameVars, pc, agentKind, move_choice, exit, finals, finalArg>>

\* agent.final(GameState(...)).
QFinal ==
    /\ agent.episodesSoFar < MaxEpisodes
    /\ \E b \in QBoards : \E s \in QScores :
          LET state == GameState(NewId, b, s, dim)
          IN /\ agent' = QLearnAgent_final(agent, state)
             /\ pre' = [agent |-> agent, state |-> state, branch |-> "none"]
    /\ ret' = None
    /\ op' = "final"
    /\ UNCHANGED <<heapVars, gameVars, pc, agentKind, move_choice, exit, finals, finalArg>>

NextQ ==
    \/ QGetMove
    \/ QFinal

SpecQ == InitQ /\ [][NextQ]_vars

\* The same agent under a caller that may also pass get_move a snapshot object
\* it has passed before, one the Q-table has a key for.  steps counts the calls
\* made, up to MaxCalls.
QCallFrame == <<heap, boardRef, held, gameVars, pc, agentKind, move_choice,
                exit, finals, finalArg>>

\* agent.get_move(game_state).
QCallGetMove(game_state) ==
    /\ steps < MaxCalls
    /\ \E o \in QLearnAgent_get_move(agent, game_state) :
          /\ agent' = o.agent
          /\ ret' = o.action
          /\ pre' = [agent |-> agent, state |-> game_state, branch |-> o.branch]
    /\ op' = "get_move"
    /\ steps' = steps + 1
    /\ UNCHANGED QCallFrame

\* get_move with a new snapshot.
QGetMoveNew ==
    \E b \in QBoards : \E s \in QScores : QCallGetMove(GameState(NewId, b, s, dim))

\* get_move with a snapshot object passed before.
QGetMoveAgain ==
    \E i \in 1..Len(agent.qTable) : QCallGetMove(agent.qTable[i].state)

\* agent.final(GameState(...)).
QFinalNew ==
    /\ steps < MaxCalls
    /\ \E b \in QBoards : \E s \in QScores :
          LET state == GameState(NewId, b, s, dim)
          IN /\ agent' = QLearnAgent_final(agent, state)
             /\ pre' = [agent |-> agent, state |-> state, branch |-> "none"]
    /\ ret' = None
    /\ op' = "final"
    /\ steps' = steps + 1
    /\ UNCHANGED QCallFrame

\* The calls of a caller that builds a new snapshot for every call, as Game.play
\* does.
NextQCalls ==
    \/ QGetMoveNew
    \/ QFinalNew

SpecQCalls == InitQ /\ [][NextQCalls]_vars

NextQAgain ==
    \/ QGetMoveNew
    \/ QGetMoveAgain
    \/ QFinalNew

SpecQAgain == InitQ /\ [][NextQAgain]_vars

\* ------------------------------------------------- boards as list objects
\* A board is a list object whose items are row list objects.  heap.rows[k] is
\* the content of row object k, heap.lists[k] the row objects list object k
\* holds, in order.  A Game or a GameState is obj = [board, score]: obj.board
\* is the list object its attribute board is bound to.  Every method returns
\* the heap and the object as it leaves them, and what it returns, in ret.
Deref(h, ref) == [i \in 1..Len(h.lists[ref]) |-> h.rows[h.lists[ref][i]]]

\* A list built by a comprehension: a new list object of new row objects.
new_board(h, contents) ==
    [heap |-> [rows  |-> h.rows \o contents,
               lists |-> Append(h.lists,
                                [i \in 1..Len(contents) |-> Len(h.rows) + i])],
     ref  |-> Len(h.lists) + 1]

\* [row[:] for row in board].
copy_board(h, ref) == new_board(h, Deref(h, ref))

\* A GameState.__init__ that binds self.board to list(board): a new list of
\* the same row objects.
GameState_init_shared_rows(h, ref, s) ==
    [heap |-> [h EXCEPT !.lists = Append(@, h.lists[ref])],
     obj  |-> [board |-> Len(h.lists) + 1, score |-> s]]

\* GameState.__init__(board, score, dim) on the heap.
GameState_init(h, ref, s) ==
    With(copy_board(h, ref), LAMBDA copy :
        [heap |-> copy.heap, obj |-> [board |-> copy.ref, score |-> s]])

\* obj.board = obj.rotate_board(obj.board), n times.
RECURSIVE rotate_rebind(_, _, _)
rotate_rebind(h, obj, n) ==
    IF n = 0
    THEN [heap |-> h, obj |-> obj]
    ELSE With(new_board(h, rotate_board(Deref(h, obj.board))), LAMBDA rotated :
             rotate_rebind(rotated.heap, [obj EXCEPT !.board = rotated.ref], n - 1))

\* move_left on the heap: obj.board[i] = <a new row list>, for every i, in the
\* list object obj.board is bound to.  The new rows are listed one by one.
heap_move_left(h, obj, update_score) ==
    With(move_left([board |-> Deref(h, obj.board), score |-> obj.score],
                   update_score),
         LAMBDA m :
            [heap |-> [rows  |-> h.rows \o [i \in 1..Len(m.board) |-> m.board[i]],
                       lists |-> [h.lists EXCEPT ![obj.board] =
                                     [i \in 1..Len(m.board) |-> Len(h.rows) + i]]],
             obj  |-> [obj EXCEPT !.score = m.score],
             ret  |-> m.moved])

\* The rotations move_<direction> makes before its move_left.
RotationsBefore(direction) ==
    CASE direction = "left"  -> 0
      [] direction = "down"  -> 1
      [] direction = "right" -> 2
      [] direction = "up"    -> 3

\* move_<direction> on the heap.
heap_move_func(direction, h, obj, update_score) ==
    With(rotate_rebind(h, obj, RotationsBefore(direction)), LAMBDA turned :
    With(heap_move_left(turned.heap, turned.obj, update_score), LAMBDA m :
    With(rotate_rebind(m.heap, m.obj, (4 - RotationsBefore(direction)) % 4),
         LAMBDA back :
            [heap |-> back.heap, obj |-> back.obj, ret |-> m.ret])))

\* simulate_move on the heap.
heap_simulate_move(h, obj, direction) ==
    With(copy_board(h, obj.board), LAMBDA original_board :
    With(heap_move_func(direction, original_board.heap, obj, FALSE), LAMBDA m :
        [heap |-> m.heap,
         obj  |-> [m.obj EXCEPT !.board = original_board.ref],
         ret  |-> Deref(m.heap, m.obj.board) # Deref(m.heap, original_board.ref)]))

\* Game.move_possible on the heap, from the i-th move function on.
RECURSIVE heap_move_possible_loop(_, _, _, _)
heap_move_possible_loop(h, obj, original_board, i) ==
    IF i > Len(Moves)
    THEN [heap |-> h, obj |-> [obj EXCEPT !.board = original_board], ret |-> FALSE]
    ELSE With(copy_board(h, original_board), LAMBDA reset :
         With(heap_simulate_move(reset.heap, [obj EXCEPT !.board = reset.ref],
                                 Moves[i]),
              LAMBDA s :
                 IF s.ret
                 THEN [heap |-> s.heap,
                       obj  |-> [s.obj EXCEPT !.board = original_board],
                       ret  |-> TRUE]
                 ELSE heap_move_possible_loop(s.heap, s.obj, original_board, i + 1)))

heap_move_possible(h, obj) ==
    With(copy_board(h, obj.board), LAMBDA original_board :
        heap_move_possible_loop(original_board.heap, obj, original_board.ref, 1))

\* GameState.valid_moves on the heap, from the i-th direction on.
RECURSIVE heap_valid_moves_loop(_, _, _, _)
heap_valid_moves_loop(h, obj, i, moves) ==
    IF i > Len(Moves)
    THEN [heap |-> h, obj |-> obj, ret |-> moves]
    ELSE With(copy_board(h, obj.board), LAMBDA original_board :
         With(heap_move_func(Moves[i], original_board.heap, obj, FALSE), LAMBDA m :
            heap_valid_moves_loop(m.heap,
                                  [m.obj EXCEPT !.board = original_board.ref],
                                  i + 1,
                                  IF m.ret THEN Append(moves, Moves[i]) ELSE moves)))

heap_valid_moves(h, obj) == heap_valid_moves_loop(h, obj, 1, <<>>)

\* obj.board[r][c] = v: a write into the row object.
set_cell(h, obj, r, c, v) ==
    [h EXCEPT !.rows[h.lists[obj.board][r]][c] = v]

\* add_new_tile on the heap: the heaps it can leave.
heap_add_new_tile(h, obj) ==
    With(Deref(h, obj.board), LAMBDA b :
        LET empty_cells ==
                {rc \in (1..Len(b)) \X (1..Len(b)) : b[rc[1]][rc[2]] = 0}
        IN IF empty_cells # {}
           THEN {set_cell(h, obj, rc[1], rc[2], v) : rc \in empty_cells, v \in {2, 4}}
           ELSE {h})

\* The list objects are named in the order they are reached from Game.board
\* and then from the held snapshots; an object nothing refers to is dropped.
RECURSIVE Dedup(_)
Dedup(seq) ==
    IF seq = <<>>
    THEN <<>>
    ELSE With(Dedup(SubSeq(seq, 1, Len(seq) - 1)), LAMBDA front :
             IF seq[Len(seq)] \in Range(front)
             THEN front
             ELSE Append(front, seq[Len(seq)]))

RECURSIVE Flatten(_)
Flatten(seqs) ==
    IF seqs = <<>> THEN <<>> ELSE seqs[1] \o Flatten(Tail(seqs))

IndexOf(seq, x) == CHOOSE i \in 1..Len(seq) : seq[i] = x

Collect(h, ref, snapshots) ==
    With(Dedup(<<ref>> \o [k \in 1..Len(snapshots) |-> snapshots[k].board]),
         LAMBDA ls :
    With(Dedup(Flatten([k \in 1..Len(ls) |-> h.lists[ls[k]]])), LAMBDA rs :
        [heap |-> [rows  |-> [k \in 1..Len(rs) |-> h.rows[rs[k]]],
                   lists |-> [k \in 1..Len(ls) |->
                                 [j \in 1..Len(h.lists[ls[k]]) |->
                                     IndexOf(rs, h.lists[ls[k]][j])]]],
         ref  |-> 1,
         held |-> [k \in 1..Len(snapshots) |->
                      [snapshots[k] EXCEPT !.board = IndexOf(ls, @)]]]))

\* The heap, Game.board and the held snapshots after one more step, and the
\* Game's board and score as they then read.
Leave(h, game, snapshots) ==
    \E n \in {Collect(h, game.board, snapshots)} :
       /\ steps < MaxSteps
       /\ steps' = steps + 1
       /\ heap' = n.heap
       /\ boardRef' = n.ref
       /\ held' = n.held
       /\ board' = Deref(n.heap, n.ref)
       /\ score' = game.score

LiveObj == [board |-> boardRef, score |-> score]

\* The dimensions of the Games whose list objects are followed.
AliasDims == {2}

\* Game(dim, DriverGoal, agent): the board of __init__ and its two tiles.
InitAlias ==
    /\ dim \in AliasDims
    /\ goal = DriverGoal
    /\ board \in initialize_game(dim)
    /\ score = 0
    /\ heap = new_board(NoHeap, board).heap
    /\ boardRef = 1
    /\ held = <<>>
    /\ steps = 0
    /\ op = "none"
    /\ pre = <<>>
    /\ ret = None
    /\ pc = "idle"
    /\ agentKind = "none"
    /\ agent = <<>>
    /\ move_choice = None
    /\ exit = ""
    /\ finals = 0
    /\ finalArg = <<>>

aliasFrame == <<dim, goal, pre, playVars>>

\* The Game moves, as play does with the agent's choice.
GameMove ==
    \E direction \in MoveSet :
        \E m \in {heap_move_func(direction, heap, LiveObj, TRUE)} :
           /\ Leave(m.heap, m.obj, held)
           /\ ret' = None
           /\ op' = "Game.move"
           /\ UNCHANGED aliasFrame

\* The Game adds a tile, while the cells sum to less than AliasSum.
GameAddNewTile ==
    /\ SumCells(board) < AliasSum
    /\ \E h \in heap_add_new_tile(heap, LiveObj) : Leave(h, LiveObj, held)
    /\ ret' = None
    /\ op' = "Game.add_new_tile"
    /\ UNCHANGED aliasFrame

\* The Game runs move_possible (through check_game_over).
GameMovePossible ==
    \E p \in {heap_move_possible(heap, LiveObj)} :
       /\ Leave(p.heap, p.obj, held)
       /\ ret' = None
       /\ op' = "Game.move_possible"
       /\ UNCHANGED aliasFrame

\* GameState(self.board, self.score, self.dim) is handed to the agent, which
\* holds it; of MaxHeld held snapshots the oldest is let go.
TakeSnapshot ==
    \E gs \in {GameState_init(heap, boardRef, score)} :
    \E kept \in {IF Len(held) < MaxHeld THEN held ELSE Tail(held)} :
       /\ Leave(gs.heap, LiveObj, Append(kept, gs.obj))
       /\ ret' = None
       /\ op' = "GameState"
       /\ UNCHANGED aliasFrame

\* The holder calls move_<direction>() on a held snapshot.
SnapshotMove ==
    \E k \in 1..Len(held) : \E direction \in MoveSet :
        \E m \in {heap_move_func(direction, heap, held[k], TRUE)} :
           /\ Leave(m.heap, LiveObj, [held EXCEPT ![k] = m.obj])
           /\ ret' = None
           /\ op' = "GameState.move"
           /\ UNCHANGED aliasFrame

\* The holder calls valid_moves on a held snapshot.
SnapshotValidMoves ==
    \E k \in 1..Len(held) :
        \E m \in {heap_valid_moves(heap, held[k])} :
           /\ Leave(m.heap, LiveObj, [held EXCEPT ![k] = m.obj])
           /\ ret' = None
           /\ op' = "GameState.valid_moves"
           /\ UNCHANGED aliasFrame

\* The holder calls add_new_tile on a held snapshot.
SnapshotAddNewTile ==
    \E k \in 1..Len(held) :
        /\ SumCells(Deref(heap, held[k].board)) < AliasSum
        /\ \E h \in heap_add_new_tile(heap, held[k]) : Leave(h, LiveObj, held)
        /\ ret' = None
        /\ op' = "GameState.add_new_tile"
        /\ UNCHANGED aliasFrame

\* The holder writes a cell of a held snapshot: snapshot.board[r][c] = 0.
SnapshotSetCell ==
    \E k \in 1..Len(held) : \E r \in 1..dim : \E c \in 1..dim :
        /\ Leave(set_cell(heap, held[k], r, c, 0), LiveObj, held)
        /\ ret' = None
        /\ op' = "GameState.set_cell"
        /\ UNCHANGED aliasFrame

NextAlias ==
    \/ GameMove
    \/ GameAddNewTile
    \/ GameMovePossible
    \/ TakeSnapshot
    \/ SnapshotMove
    \/ SnapshotValidMoves
    \/ SnapshotAddNewTile
    \/ SnapshotSetCell

SpecAlias == InitAlias /\ [][NextAlias]_vars

\* ------------------------------------------------------------------ claims
\* What a left move is to make of the non-zero cells s of a row: equal pairs
\* are taken from the left, and a cell that took part in a pair is not used again.
RECURSIVE PairsFromLeft(_)
PairsFromLeft(s) ==
    IF Len(s) = 0 THEN <<>>
    ELSE IF Len(s) >= 2 /\ s[1] = s[2]
         THEN <<s[1] + s[2]>> \o PairsFromLeft(SubSeq(s, 3, Len(s)))
         ELSE <<s[1]>> \o PairsFromLeft(SubSeq(s, 2, Len(s)))

\* The sum of the doubled values of those pairs.
RECURSIVE PairsGain(_)
PairsGain(s) ==
    IF Len(s) = 0 THEN 0
    ELSE IF Len(s) >= 2 /\ s[1] = s[2]
         THEN s[1] + s[2] + PairsGain(SubSeq(s, 3, Len(s)))
         ELSE PairsGain(SubSeq(s, 2, Len(s)))

RECURSIVE SumOver(_, _)
SumOver(f, n) == IF n = 0 THEN 0 ELSE f[n] + SumOver(f, n - 1)

NonZeros(row) == SelectSeq(row, LAMBDA x : x > 0)

\* C1: after a left move every row is its non-zero cells with equal pairs merged
\* from the left, each cell in at most one merge, padded with zeros; with scoring
\* the score has grown by exactly the sum of the doubled values; and the row
\* [2,2,2,2] has become [4,4,0,0] for a gain of 8.
C1_LeftMoveMergesEachTileOnce ==
    op = "left" =>
        /\ \A i \in 1..dim :
              board[i] = PairsFromLeft(NonZeros(pre.board[i]))
                           \o Zeros(dim - Len(PairsFromLeft(NonZeros(pre.board[i]))))
        /\ pre.update_score =>
              score = pre.score
                        + SumOver([i \in 1..dim |-> PairsGain(NonZeros(pre.board[i]))], dim)
        /\ \A i \in 1..dim :
              pre.board[i] = <<2, 2, 2, 2>> =>
                  /\ board[i] = <<4, 4, 0, 0>>
                  /\ (pre.update_score
                        /\ \A k \in 1..dim : k # i => pre.board[k] = Zeros(dim))
                     => score = pre.score + 8

C1_Witness ==
    /\ op = "left"
    /\ pre.update_score
    /\ pre.board = <<<<2, 2, 2, 2>>, Zeros(4), Zeros(4), Zeros(4)>>
    /\ board[1] = <<4, 4, 0, 0>>
    /\ score = pre.score + 8

\* Some directional move, applied to board b, changes a cell of it.
SomeMoveChanges(b) ==
    \E d \in MoveSet : move_func(d, [board |-> b, score |-> 0], TRUE).board # b

Full(b) == \A r \in 1..Len(b) : \A c \in 1..Len(b) : b[r][c] # 0

\* Two equal cells side by side in a row, or one above the other in a column.
EqualNeighbours(b) ==
    \/ \E r \in 1..Len(b) : \E c \in 1..(Len(b) - 1) : b[r][c] = b[r][c + 1]
    \/ \E r \in 1..(Len(b) - 1) : \E c \in 1..Len(b) : b[r][c] = b[r + 1][c]

\* C9: move_possible returns False iff none of the four moves changes the board,
\* and check_game_over is True exactly then; a full board with no two equal
\* neighbours is game-over, a full board with a pair of equal neighbours is not.
C9_MovePossibleIffSomeMoveChanges ==
    /\ op = "move_possible" => (ret = SomeMoveChanges(pre.board))
    /\ op = "check_game_over" =>
          /\ ret = ~SomeMoveChanges(pre.board)
          /\ Full(pre.board) /\ ~EqualNeighbours(pre.board) => ret
          /\ Full(pre.board) /\ EqualNeighbours(pre.board) => ~ret

C9_Witness ==
    /\ op = "check_game_over"
    /\ ret
    /\ dim = 2
    /\ Full(pre.board)
    /\ ~EqualNeighbours(pre.board)

\* C10: the boolean a directional move returns is True iff the board after the
\* move differs from the board before it in at least one cell.
C10_MovedIffBoardChanged ==
    op \in MoveSet =>
        (ret = (\E r \in 1..dim : \E c \in 1..dim : board[r][c] # pre.board[r][c]))

C10_Witness ==
    /\ op = "up"
    /\ ret
    /\ dim = LineDim
    /\ board # pre.board
    /\ board[LineDim] = pre.board[LineDim]

\* C2: Game.play returns without raising, whichever agent variant drives it:
\* every step it performs on the agent, agent.final included, is defined.
C2_PlayNeverRaises == pc # "raised"

\* The board b with one more tile, a 2 or a 4, in a cell that was empty in b.
OneTileAdded(b, after) ==
    \E r \in 1..Len(b) : \E c \in 1..Len(b) :
        /\ b[r][c] = 0
        /\ after[r][c] \in {2, 4}
        /\ \A r2 \in 1..Len(b) : \A c2 \in 1..Len(b) :
              (r2 # r \/ c2 # c) => after[r2][c2] = b[r2][c2]

\* C4: a turn whose move is legal leaves the live board as the move applied with
\* scoring plus exactly one new 2 or 4 in a cell the move left empty; a turn
\* whose move is illegal or None ends the loop with no tile spawned and the live
\* board and score unchanged.
C4_TurnAppliesMoveAndSpawnsOneTile ==
    /\ pc = "check_win" =>
          /\ move_choice \in MoveSet
          /\ move_func(move_choice, pre, FALSE).board # pre.board
          /\ OneTileAdded(move_func(move_choice, pre, TRUE).board, board)
          /\ score = move_func(move_choice, pre, TRUE).score
    /\ (pc = "final" /\ exit = "invalid") =>
          /\ move_choice \in MoveSet
          /\ move_func(move_choice, pre, FALSE).board = pre.board
          /\ board = pre.board /\ score = pre.score
    /\ (pc = "final" /\ exit = "none") =>
          /\ move_choice = None
          /\ board = pre.board /\ score = pre.score
    /\ (pc = "apply" /\ move_choice \in MoveSet
          /\ move_func(move_choice, Live, FALSE).board # board) => exit = ""

C4_Witness ==
    /\ pc = "check_win"
    /\ score > pre.score
    /\ OneTileAdded(move_func(move_choice, pre, TRUE).board, board)

\* C5: every play call with an agent invokes agent.final exactly once, on every
\* way the loop can end, with a snapshot of the live board and score.
C5_FinalInvokedExactlyOnce ==
    /\ pc \in {"done", "raised"} =>
          /\ finals = 1
          /\ finalArg.board = board
          /\ finalArg.score = score
    /\ pc \notin {"done", "raised"} => finals = 0

\* The steps of a turn, counted down to the spawn that ends it.
StepsLeft ==
    CASE pc = "check_win"    -> 4
      [] pc = "while"        -> 3
      [] pc = "get_move"     -> 2
      [] pc = "apply"        -> 1
      [] pc = "add_new_tile" -> 0
      [] OTHER               -> 0

\* What is left of an episode: the room left under the largest sum the cells of a
\* running session can have (every cell below twice the goal, or a first tile),
\* and the steps left in the turn.
Remaining ==
    LET most == dim * dim * (IF goal < 4 THEN 4 ELSE 2 * goal)
    IN 5 * (most - SumCells(board)) + StepsLeft

\* C7: an agent-driven episode terminates, whatever the spawns and the moves:
\* while the turn loop runs it has a next step, and every step either leaves the
\* loop (win or game-over) or lowers Remaining, which never falls below 0.
C7_EpisodeTerminates ==
    /\ [](exit = "" => pc \in {"while", "get_move", "apply", "add_new_tile", "check_win"})
    /\ [](pc = "get_move" => AgentGetMove(GameState(NewId, board, score, dim)) # {})
    /\ [](pc = "add_new_tile" => add_new_tile(board) # {})
    /\ [][exit = "" => (exit' # "" \/ (0 <= Remaining' /\ Remaining' < Remaining))]_vars

C7_Witness ==
    /\ exit = "win"
    /\ agentKind = "RandomAgent"
    /\ score >= 16

\* The cells of line i of board b read from the edge that move d slides to.
LineToEdge(b, d, i) ==
    LET n == Len(b)
    IN CASE d = "left"  -> [k \in 1..n |-> b[i][k]]
         [] d = "right" -> [k \in 1..n |-> b[i][n + 1 - k]]
         [] d = "up"    -> [k \in 1..n |-> b[k][i]]
         [] d = "down"  -> [k \in 1..n |-> b[n + 1 - k][i]]

\* Which cells of PairsFromLeft(s) were made by merging a pair.
RECURSIVE MergedCells(_)
MergedCells(s) ==
    IF Len(s) = 0 THEN <<>>
    ELSE IF Len(s) >= 2 /\ s[1] = s[2]
         THEN <<TRUE>> \o MergedCells(SubSeq(s, 3, Len(s)))
         ELSE <<FALSE>> \o MergedCells(SubSeq(s, 2, Len(s)))

\* Two equal non-zero cells next to each other along the axis of move d.
EqualPairAlong(b, d) ==
    \E i \in 1..Len(b) : \E k \in 1..(Len(b) - 1) :
        /\ LineToEdge(b, d, i)[k] # 0
        /\ LineToEdge(b, d, i)[k] = LineToEdge(b, d, i)[k + 1]

\* C8 as stated: right after a move on the live board, before the spawn, no two
\* equal non-zero cells are neighbours along the axis of that move.
C8_NoEqualNeighboursAlongMove ==
    pc = "add_new_tile" => ~EqualPairAlong(board, move_choice)

\* C8 amended: right after a move on the live board, before the spawn, each line
\* along the axis is its former tiles paired once from the edge moved to, and of
\* two equal non-zero neighbours in it at least one was made by a merge of this
\* move.
C8_EqualNeighboursHoldAMergedTile ==
    pc = "add_new_tile" =>
        \A i \in 1..dim :
            LET was == NonZeros(LineToEdge(pre.board, move_choice, i))
                now == LineToEdge(board, move_choice, i)
                made == MergedCells(was)
            IN /\ now = PairsFromLeft(was) \o Zeros(dim - Len(PairsFromLeft(was)))
               /\ \A k \in 1..(dim - 1) :
                     (now[k] # 0 /\ now[k] = now[k + 1]) => (made[k] \/ made[k + 1])

C8_Witness ==
    /\ pc = "add_new_tile"
    /\ EqualPairAlong(board, move_choice)

\* C3: snapshots with identical boards and scores are equal as GameStateFeatures,
\* so the entry written for (A, action) is the one getQValue, getCount and
\* maxQValue read for (B, action) when B was built later from the same board and
\* score.
C3_EqualSnapshotsShareEntries ==
    \A i \in 1..Len(agent.qTable) : \A k \in 1..Len(agent.previousState) :
        LET written == agent.qTable[i]
            B == agent.previousState[k]
        IN (B.board = written.state.board /\ B.score = written.state.score) =>
              /\ GameStateFeatures_eq(written.state, B)
              /\ getQValue(agent, B, written.action) = written.q
              /\ getCount(agent, B, written.action) = written.n
              /\ ~FLess(maxQValue(agent, B), written.q)

SnapshotOps ==
    {"GameState.move", "GameState.valid_moves", "GameState.add_new_tile",
     "GameState.set_cell"}

GameOps == {"Game.move", "Game.add_new_tile", "Game.move_possible"}

\* What the held snapshots read: their boards and scores.
HeldReads ==
    [k \in 1..Len(held) |->
        [board |-> Deref(heap, held[k].board), score |-> held[k].score]]

\* C6: nothing done to a snapshot (its moves, its valid_moves probes, its
\* add_new_tile, a write into one of its cells), held from whichever turn,
\* changes what Game.board reads or Game.score; and nothing the Game does to its
\* board (a move, a new tile, move_possible) changes what a held snapshot reads.
C6_SnapshotNeverChangesLiveBoard ==
    /\ [][op' \in SnapshotOps => (board' = board /\ score' = score)]_vars
    /\ [][op' \in GameOps => HeldReads' = HeldReads]_vars

\* A snapshot taken on an earlier turn has been written to, and the Game has
\* moved on since it was taken.
C6_Witness ==
    /\ op \in {"GameState.add_new_tile", "GameState.set_cell", "GameState.move"}
    /\ held # <<>>
    /\ Deref(heap, held[1].board) # board
    /\ held[1].score # score

\* The board seen in a mirror standing at its side: every row reversed.
Mirror(b) == [r \in 1..Len(b) |-> [c \in 1..Len(b) |-> b[r][Len(b) + 1 - c]]]

\* The board with rows and columns exchanged.
Transpose(b) == [r \in 1..Len(b) |-> [c \in 1..Len(b) |-> b[c][r]]]

\* No tile of b has an empty cell between it and the edge the direction names.
PackedToward(direction, b) ==
    \A r \in 1..Len(b) : \A c \in 1..Len(b) :
        b[r][c] # 0 =>
            CASE direction = "left"  -> \A k \in 1..c : b[r][k] # 0
              [] direction = "right" -> \A k \in c..Len(b) : b[r][k] # 0
              [] direction = "up"    -> \A k \in 1..r : b[k][c] # 0
              [] direction = "down"  -> \A k \in r..Len(b) : b[k][c] # 0

\* What the move in the mirrored or transposed frame predicts: the move applied
\* to the changed board, and its board changed back.
SeenThrough(change(_), direction) ==
    With(move_func(direction, [board |-> change(pre.board), score |-> pre.score],
                   pre.update_score),
         LAMBDA m : [m EXCEPT !.board = change(m.board)])

\* C11: move_right is move_left on the mirrored board mirrored back, move_up is
\* move_left on the transposed board transposed back, move_down is move_right on
\* the transposed board transposed back, each with the board in its original
\* orientation, the same score and the same returned flag; and after every move
\* the tiles lie against the edge the move is named after.
C11_MovesAreLeftMoveSeenThroughRotations ==
    /\ op = "right" =>
          [board |-> board, score |-> score, moved |-> ret]
            = SeenThrough(Mirror, "left")
    /\ op = "up" =>
          [board |-> board, score |-> score, moved |-> ret]
            = SeenThrough(Transpose, "left")
    /\ op = "down" =>
          [board |-> board, score |-> score, moved |-> ret]
            = SeenThrough(Transpose, "right")
    /\ op \in MoveSet => PackedToward(op, board)

C11_Witness ==
    /\ op = "up"
    /\ pre.update_score
    /\ pre.board = <<<<0, 2>>, <<4, 2>>>>
    /\ board = <<<<4, 4>>, <<0, 0>>>>
    /\ score = pre.score + 4

\* 0, or a power of two that is at least 2.
IsTile(x) == x = 0 \/ \E k \in 1..x : x = 2 ^ k

\* C12: in every state of a Game, after construction, after every move and
\* after every new tile, the board has dim rows of dim cells and every cell is 0
\* or a power of two that is at least 2.
C12_CellsAreZeroOrPowersOfTwo ==
    /\ Len(board) = dim
    /\ \A r \in 1..dim :
          /\ Len(board[r]) = dim
          /\ \A c \in 1..dim : IsTile(board[r][c])

C12_Witness ==
    /\ pc = "check_win"
    /\ score >= 12
    /\ \E r \in 1..dim : \E c \in 1..dim : board[r][c] = 8

\* The call that has just returned made a learn call: a get_move that found
\* legal moves, or a final, with a pair pending.
LearnCalled ==
    /\ \/ op = "get_move" /\ ret # None
       \/ op = "final"
    /\ pre.agent.previousState # <<>>

\* The pair that learn call was made for.
Learned ==
    [state  |-> pre.agent.previousState[Len(pre.agent.previousState)],
     action |-> pre.agent.previousAction[Len(pre.agent.previousAction)]]

\* C13: learn(state, action, reward, nextState) leaves the visit count stored
\* for (state, action) as it was before the call, and changes no other entry of
\* the Q-table.
C13_LearnKeepsVisitCount ==
    LearnCalled =>
        /\ getCount(agent, Learned.state, Learned.action)
             = getCount(pre.agent, Learned.state, Learned.action)
        /\ \A i \in 1..Len(pre.agent.qTable) :
              i # KeyIndex(pre.agent.qTable, Learned.state, Learned.action) =>
                  agent.qTable[i] = pre.agent.qTable[i]

\* The training budget of agent x is used up.
TrainingDone(x) == x.episodesSoFar >= x.numTraining

\* C14: in every state of a QLearnAgent with episodesSoFar >= numTraining, for
\* every numTraining >= 0, epsilon and alpha are 0; a get_move made in such a
\* state does not take the exploration branch, its learn call leaves the stored
\* Q-value as it was, and the visit count of the move it returns still grows.
C14_PolicyFrozenAfterTraining ==
    /\ TrainingDone(agent) =>
          agent.epsilon = Int2F(0) /\ agent.alpha = Int2F(0)
    /\ (op = "get_move" /\ TrainingDone(pre.agent)) =>
          /\ pre.branch # "explore"
          /\ LearnCalled =>
                getQValue(agent, Learned.state, Learned.action)
                  = getQValue(pre.agent, Learned.state, Learned.action)
          /\ ret # None =>
                getCount(agent, pre.state, ret)
                  = getCount(pre.agent, pre.state, ret) + 1

\* The directions, in the order left, right, up, down, whose move changes b.
ChangingMoves(b) ==
    SelectSeq(Moves, LAMBDA d :
        move_func(d, [board |-> b, score |-> 0], TRUE).board # b)

\* C15: valid_moves returns exactly the directions whose move would change the
\* snapshot's board, in the order left, right, up, down, and the empty list iff
\* no move changes the board.
C15_ValidMovesAreTheChangingMoves ==
    op = "valid_moves" =>
        /\ ret = ChangingMoves(pre.board)
        /\ (ret = <<>>) = ~SomeMoveChanges(pre.board)

C15_Witness ==
    /\ op = "valid_moves"
    /\ pre.board = <<<<2, 2>>, <<4, 0>>>>
    /\ ret = <<"left", "right", "down">>

\* C19: after move_possible or check_game_over returns, whatever it returns, the
\* live board and score are what they were before the call; after valid_moves
\* returns, the board and score of the snapshot are what they were before it.
C19_ProbingLeavesBoardAndScore ==
    /\ op \in {"move_possible", "check_game_over"} =>
          board = pre.board /\ score = pre.score
    /\ op = "valid_moves" =>
          held[1].board = pre.board /\ held[1].score = pre.score

\* A probe has returned on a board where a scoring move would have merged.
C19_Witness ==
    /\ op \in {"move_possible", "valid_moves"}
    /\ pre.board = <<<<2, 2>>, <<4, 4>>>>
    /\ move_func("left", [board |-> pre.board, score |-> pre.score], TRUE).score
         = pre.score + 12

\* The number of empty cells of snapshot gs.
EmptyCells(gs) ==
    Cardinality({rc \in (1..Len(gs.board)) \X (1..Len(gs.board)) :
                    gs.board[rc[1]][rc[2]] = 0})

ScoreIncrease(pair) == pair.end.score - pair.start.score

\* The two pairs end with as many empty cells and the same corner condition, and
\* the second has the larger score increase.
SecondGainsMore ==
    /\ op = "computeReward"
    /\ EmptyCells(pre[1].end) = EmptyCells(pre[2].end)
    /\ largest_in_corner(pre[1].end) = largest_in_corner(pre[2].end)
    /\ ScoreIncrease(pre[1]) < ScoreIncrease(pre[2])

\* C16: of two (start, end) pairs whose end boards have the same number of empty
\* cells and the same corner condition, the one with the larger score increase
\* has the strictly larger reward.
C16_RewardGrowsWithScoreIncrease ==
    SecondGainsMore => FLess(ret[1], ret[2])

\* C16 as it holds: the same, for pairs whose largest tile is not in the corner
\* or whose start snapshots have the same score.
C16_RewardGrowsWithScoreIncreaseFromEqualStart ==
    (/\ SecondGainsMore
     /\ \/ ~largest_in_corner(pre[1].end)
        \/ pre[1].start.score = pre[2].start.score)
    => FLess(ret[1], ret[2])

C16_Witness ==
    /\ SecondGainsMore
    /\ largest_in_corner(pre[1].end)
    /\ pre[1].start.score = 4
    /\ pre[2].start.score = 4
    /\ pre[1].end.board # pre[2].end.board
    /\ ret = <<Int2F(24), Int2F(30)>>

\* The agent before the call, after the one learn call the call owes to the
\* pending pair: learn(pending state, pending action, reward against the
\* snapshot of this call, that snapshot).
AfterOwedLearn ==
    IF pre.agent.previousState # <<>>
    THEN learn(pre.agent, Learned.state, Learned.action,
               computeReward(Learned.state, pre.state), pre.state)
    ELSE pre.agent

\* The entry of the table is the pair get_move has returned last, not yet
\* followed by a get_move that found moves or by a final.
IsPending(e) ==
    /\ agent.previousState # <<>>
    /\ GameState_eq(e.state, agent.previousState[Len(agent.previousState)])
    /\ e.action = agent.previousAction[Len(agent.previousAction)]

\* C17: the learn call for a pair that get_move returns is made exactly once, by
\* the next get_move of the episode that finds moves, with its snapshot as
\* nextState, or by final with the terminal snapshot; a get_move that finds no
\* move leaves the pair pending; after final both trackers are empty.  Every
\* call changes the old entries of the table by that one learn call and nothing
\* else.  The count of an entry is 1 from updateCount plus 1 for every learn
\* call made for it: it is 1 while the pair is pending and 2 ever after.
C17_EachPairLearnedOnceAtTheNextTurn ==
    /\ (op = "get_move" /\ ret # None) =>
          /\ agent.previousState = Append(pre.agent.previousState, pre.state)
          /\ agent.previousAction = Append(pre.agent.previousAction, ret)
          /\ SubSeq(agent.qTable, 1, Len(pre.agent.qTable)) = AfterOwedLearn.qTable
    /\ (op = "get_move" /\ ret = None) => agent = pre.agent
    /\ op = "final" =>
          /\ agent.previousState = <<>>
          /\ agent.previousAction = <<>>
          /\ agent.qTable = AfterOwedLearn.qTable
    /\ \A i \in 1..Len(agent.qTable) :
          agent.qTable[i].n = IF IsPending(agent.qTable[i]) THEN 1 ELSE 2

\* A get_move of the second episode has found moves: the table holds the pair of
\* the first episode, learned once, and the new pair, pending.
C17_Witness ==
    /\ op = "get_move"
    /\ ret # None
    /\ agent.episodesSoFar = 1
    /\ Len(agent.qTable) = 2
    /\ agent.qTable[1].n = 2
    /\ agent.qTable[2].n = 1
    /\ Len(agent.previousState) = 1

\* The position of direction d in the order left, right, up, down.
MoveRank(d) == CHOOSE i \in 1..Len(Moves) : Moves[i] = d

\* value + 10/(count+1) of every direction for the snapshot of the call, as the
\* table has them when get_move decides: after the learn call it owes, before
\* the updateCount of the move it returns.
Adjusted ==
    LET deciding == AfterOwedLearn
    IN [m \in MoveSet |->
           FAdd(getQValue(deciding, pre.state, m),
                Frac(10, getCount(deciding, pre.state, m) + 1))]

\* The legal moves of the snapshot of the call.
Legal == Range(ChangingMoves(pre.state.board))

\* C18: a get_move that has legal moves and does not take the exploration
\* branch returns a legal move whose value + 10/(count+1) no legal move exceeds,
\* the first such move in the order left, right, up, down; a get_move without
\* legal moves returns None and changes neither the Q-table nor the pending
\* trackers.
C18_GetMoveReturnsFirstBestLegalMove ==
    op = "get_move" =>
        /\ (Legal # {} /\ pre.branch # "explore") =>
              \E adjusted \in {Adjusted} :
                 /\ ret \in Legal
                 /\ \A m \in Legal :
                       /\ ~FLess(adjusted[ret], adjusted[m])
                       /\ MoveRank(m) < MoveRank(ret) =>
                             FLess(adjusted[m], adjusted[ret])
        /\ Legal = {} =>
              /\ ret = None
              /\ agent.qTable = pre.agent.qTable
              /\ agent.previousState = pre.agent.previousState
              /\ agent.previousAction = pre.agent.previousAction

\* An exploiting get_move has returned a move that is not the first legal one,
\* and another one that ties with a later move.
C18_Witness ==
    /\ op = "get_move"
    /\ pre.branch = "exploit"
    /\ \E m \in Legal : MoveRank(m) < MoveRank(ret)
    /\ \E m \in Legal : MoveRank(m) > MoveRank(ret) /\ Adjusted[m] = Adjusted[ret]

\* C20: rotate_board applied four times to a square board returns the board, and
\* one rotate_board is the quarter turn clockwise: cell (r, c) of its argument,
\* counted from 0, is cell (c, dim-1-r) of its result (counted from 1, cell
\* (c, dim+1-r)).
C20_FourRotationsAreTheIdentity ==
    /\ steps = 4 => ret = pre.board
    /\ op = "rotate_board" =>
          /\ Len(ret) = dim
          /\ \A r \in 1..dim : Len(ret[r]) = dim
          /\ \A r \in 1..dim : \A c \in 1..dim :
                ret[c][dim + 1 - r] = pre.last[r][c]

C20_Witness ==
    /\ steps = 4
    /\ pre.board = <<<<2, 4>>, <<0, 8>>>>
    /\ pre.last = <<<<4, 8>>, <<2, 0>>>>
    /\ ret = pre.board

\* Some cell of b is empty.
HasEmptyCell(b) == \E r \in 1..Len(b) : \E c \in 1..Len(b) : b[r][c] = 0

\* C21: in Game.play, when a legal move has just been applied to the board, at
\* least one cell is empty, so the add_new_tile that follows never meets a full
\* board and always writes a tile; and when the turn is complete the sum of all
\* cells is that of the start of the turn plus 2 or plus 4.
C21_LegalMoveLeavesRoomForTheNewTile ==
    /\ pc = "add_new_tile" =>
          /\ HasEmptyCell(board)
          /\ board # pre.board
          /\ SumCells(board) = SumCells(pre.board)
          /\ \A b \in add_new_tile(board) : b # board
    /\ pc = "check_win" =>
          SumCells(board) - SumCells(pre.board) \in {2, 4}

\* A turn with a merge is complete and has filled the board.
C21_Witness ==
    /\ pc = "check_win"
    /\ score > pre.score
    /\ ~HasEmptyCell(board)
    /\ SumCells(board) = SumCells(pre.board) + 4

\* The session of anyAgent.py: one QLearnAgent, and for every episode a new Game
\* with that agent and a call of play.  steps counts the turns of the session;
\* pre keeps, with the board and score at the start of the turn, the agent as
\* get_move found it, the snapshot it was passed and the branch it took.
LearnDims == {2}

\* The boards the episodes are followed from: those of initialize_game with both
\* tiles in the first row.
LearnStarts(d) == {b \in initialize_game(d) : \A r \in 2..d : \A c \in 1..d : b[r][c] = 0}

InitLearn ==
    /\ dim \in LearnDims
    /\ agentKind = "QLearnAgent"
    /\ agent = QLearnAgent_init
    /\ goal = LearnGoal
    /\ board \in LearnStarts(dim)
    /\ score = 0
    /\ pc = "while"
    /\ move_choice = None
    /\ exit = ""
    /\ finals = 0
    /\ finalArg = <<>>
    /\ heap = NoHeap
    /\ boardRef = 0
    /\ held = <<>>
    /\ steps = 0
    /\ op = "none"
    /\ pre = [board |-> board, score |-> score, update_score |-> TRUE,
              agent |-> <<>>, state |-> <<>>, branch |-> "none"]
    /\ ret = FALSE

\* move_choice = self.agent.get_move(GameState(self.board, self.score, self.dim))
LearnGetMove ==
    /\ pc = "get_move"
    /\ steps < MaxTurns
    /\ \E game_state \in {GameState(NewId, board, score, dim)} :
          \E o \in QLearnAgent_get_move(agent, game_state) :
             /\ agent' = o.agent
             /\ move_choice' = o.action
             /\ pre' = [board |-> board, score |-> score, update_score |-> TRUE,
                        agent |-> agent, state |-> game_state,
                        branch |-> o.branch]
    /\ pc' = "apply"
    /\ op' = "get_move"
    /\ steps' = steps + 1
    /\ UNCHANGED <<heap, boardRef, held, gameVars, ret, agentKind, exit, finals,
                   finalArg>>

\* The next round of the loop of anyAgent.py: game = Game(dim, goal, q_agent) and
\* game.play().
LearnNewGame ==
    /\ pc = "done"
    /\ steps < MaxTurns
    /\ board' \in LearnStarts(dim)
    /\ score' = 0
    /\ pc' = "while"
    /\ move_choice' = None
    /\ exit' = ""
    /\ op' = "none"
    /\ UNCHANGED <<heapVars, dim, goal, pre, ret, agentKind, agent, finals, finalArg>>

NextLearn ==
    \/ PlayWhile
    \/ LearnGetMove
    \/ PlayApply
    \/ PlayAddNewTile
    \/ PlayCheckWin
    \/ PlayFinal
    \/ LearnNewGame

SpecLearn == InitLearn /\ [][NextLearn]_vars

\* C22: when Game.play drives a QLearnAgent, the snapshot passed to get_move is
\* equal to the state of no entry the Q-table holds from earlier turns or
\* episodes, so when the move is decided, after the learn call owed to the
\* pending pair, getQValue gives 0 and getCount gives 0 for every legal move;
\* and a get_move that does not take the exploration branch returns the first
\* legal move in the order left, right, up, down, whatever the table holds.
C22_PlaySnapshotsAreUnwrittenKeys ==
    op = "get_move" =>
        /\ \A i \in 1..Len(pre.agent.qTable) :
              ~GameStateFeatures_eq(pre.agent.qTable[i].state, pre.state)
        /\ \E known \in {AfterOwedLearn} :
              \A m \in Legal :
                 /\ getQValue(known, pre.state, m) = Int2F(0)
                 /\ getCount(known, pre.state, m) = 0
        /\ (Legal # {} /\ pre.branch # "explore") =>
              move_choice = ChangingMoves(pre.state.board)[1]

\* A second episode starts from the board and score of the first one, whose
\* first move has been learned with a value above 0 and is not the pending one;
\* get_move exploits and returns that same first legal move.
C22_Witness ==
    /\ op = "get_move"
    /\ pre.branch = "exploit"
    /\ pre.agent.previousState = <<>>
    /\ move_choice = ChangingMoves(pre.state.board)[1]
    /\ \E i \in 1..Len(pre.agent.qTable) :
          /\ pre.agent.qTable[i].state.board = pre.state.board
          /\ pre.agent.qTable[i].state.score = pre.state.score
          /\ pre.agent.qTable[i].action = move_choice
          /\ FLess(Int2F(0), getQValue(pre.agent, pre.agent.qTable[i].state, move_choice))
          /\ getCount(pre.agent, pre.agent.qTable[i].state, move_choice) = 2

====
